---- MODULE Spec2Model ----
(***************************************************************************)
(* Model of the hand-written array traversal functions of                  *)
(* src/03-objects/01-objects-introduction.js (customMap, customFilter,     *)
(* customFind, customReduce) and of the event loop that the asynchronous   *)
(* examples of src/unnamed/part_003 (04-promises-vs-async-await.js) and    *)
(* src/04-function/01-function-introduction.js run on.                     *)
(***************************************************************************)
EXTENDS Integers, Sequences, FiniteSets, TLC

(***************************************************************************)
(* Bounds                                                                  *)
(***************************************************************************)
\* longest input array drawn by Init
MaxLen == 3
\* how many callback invocations of one traversal may modify the input array
MaxMutations == 1
\* how many callbacks (timer callbacks and promise reactions) one run registers
MaxTasks == 4
\* longest setTimeout delay, and how far the clock runs
MaxDelay == 1
MaxTime == 1
\* how many tasks are submitted to one scheduler
MaxSubmit == 3
\* how many task bodies throw and late cancel requests are made, together
MaxFaults == 1
\* largest health and largest attack power or damage given to a GameCharacter
MaxHealth == 2
MaxPower == 2

(***************************************************************************)
(* JavaScript values.  Every value is a pair <<tag, n>> so that any two    *)
(* values can be compared.                                                 *)
(***************************************************************************)
Num(n) == <<"num", n>>
Undefined == <<"undefined", 0>>
Ref(r) == <<"ref", r>>
\* an index of an array that holds no element (a sparse array's hole)
Hole == <<"hole", 0>>
\* "nothing was returned" / "nothing was thrown"
NoValue == <<"none", 0>>
NoError == <<"none", "">>

\* the values the examples put in arrays, return from callbacks and pass as
\* initialValue: numbers and undefined
Values == {Num(0), Num(1), Undefined}
Slots == Values \cup {Hole}

\* a truthiness test that takes every number, 0 included, as true
TruthyAnyNumber(v) == v[1] = "num"

\* if (v) ... : 0 and undefined are falsy, every other number is truthy
Truthy(v) == v[1] = "num" /\ v[2] # 0

\* the array the caller passes, and the array the traversal allocates
InputRef == 1
NewRef == 2

\* the error customReduce throws itself
EmptyReduceError == <<"TypeError", "Reduce of empty array with no initial value">>
\* errors a caller-supplied callback may throw
CallbackErrors == {<<"Error", "callback failed">>, EmptyReduceError}

(***************************************************************************)
(* Arrays: a sequence of slots, indexed from 0 as in the source.           *)
(***************************************************************************)
Arrays(n) == UNION {[1..k -> Slots] : k \in 0..n}

\* arr[i]: reading a hole or an index past the end gives undefined
GetEl(arr, i) == IF i < Len(arr) /\ arr[i + 1] # Hole THEN arr[i + 1] ELSE Undefined

\* arr.hasOwnProperty(i)
HasOwnProperty(arr, i) == i < Len(arr) /\ arr[i + 1] # Hole

\* what a callback may do to the array it receives as third argument
ApplyEffect(arr, eff) ==
  CASE eff = "push" -> Append(arr, Num(1))
    [] eff = "pop" -> IF arr = <<>> THEN arr ELSE SubSeq(arr, 1, Len(arr) - 1)
    [] OTHER -> arr

\* the values a callback returns: a falsy and a truthy number, as the
\* callbacks of the examples (mark + 1, mark < 70, accumulator + mark)
Returns == {Num(0), Num(1)}

\* one invocation of the caller-supplied callback: it returns a value,
\* possibly after modifying the array, or it throws
Outcomes ==
  [kind : {"return"}, value : Returns, effect : {"none", "push", "pop"}, err : {NoError}]
    \cup [kind : {"throw"}, value : {NoValue}, effect : {"none"}, err : CallbackErrors]

VARIABLES
  pc,            \* "idle", "loop", "returned", "threw"
  fn,            \* the traversal function being run
  heap,          \* contents of the arrays, by reference
  index,         \* the loop variable
  accumulator,   \* customReduce's accumulator
  argc,          \* number of arguments of the customReduce call
  initialValue,  \* customReduce's second parameter
  s0,            \* the input array as it was when the traversal was called
  calls,         \* the invocations of the callback, in order
  result,        \* the value returned to the caller
  error          \* the exception that reached the caller

travVars == <<pc, fn, heap, index, accumulator, argc, initialValue, s0, calls, result, error>>

VARIABLES
  running,         \* what is on the call stack: "script", "micro", "macro" or "none"
  current,         \* the callback on the call stack (0: the script, or nothing)
  tasks,           \* every callback registered so far, by id
  timers,          \* setTimeout timers that run in the background
  macrotaskQueue,  \* callbacks of the timers that have fired, in firing order
  microtaskQueue,  \* promise reactions and await continuations, in order
  now,             \* the clock
  executed         \* the callbacks run so far, in order

loopVars == <<running, current, tasks, timers, macrotaskQueue, microtaskQueue, now, executed>>

VARIABLES
  schedState,   \* "Idle", "Draining", "RunningMacrotask" or "Drained"
  submitted,    \* every task submitted so far, by submission sequence number
  microQueue,   \* the scheduler's microtask queue
  macroQueue,   \* the scheduler's macrotask queue
  runningTask,  \* the task whose body is executing (0: none)
  order,        \* the tasks popped for execution, in order
  threw,        \* the tasks whose body threw
  hookReports,  \* the failures passed to the registered error hook
  cancelled,    \* the tasks removed from a queue before they were popped
  lateCancels   \* the tasks whose cancellation was requested after they were popped

schedVars == <<schedState, submitted, microQueue, macroQueue, runningTask, order,
               threw, hookReports, cancelled, lateCancels>>

VARIABLES
  example,    \* the example file whose script runs ("none": no script)
  ip,         \* for the script and each callback, the statement to run next
  console,    \* the lines logged so far
  callbacks   \* the callback of every registered task, by id

exVars == <<example, ip, console, callbacks>>

VARIABLES
  characters  \* the GameCharacter instances: #health and attackPower, by name

gameVars == <<characters>>

VARIABLES
  users,      \* AuthService.#users: the registered users, in order
  authResult  \* the object the last AuthService call returned

authVars == <<users, authResult>>

VARIABLES
  appState,      \* the state hooks of App: heroData, monsterData, turn, message, gameOver
  rendered,      \* their values in the last committed render, which its closures see
  effectPending  \* the effect of the last commit has not run yet

appVars == <<appState, rendered, effectPending>>

VARIABLES
  closureFn,  \* the function of the closure examples that was called ("none": none)
  closurePc,  \* where that function is: "loop", "end", or "none"
  env,        \* the value of every variable binding created so far
  scope,      \* the binding the loop variable i denotes now
  closures,   \* for every timer callback, by id, the binding it closed over
  ran,        \* the timer callbacks whose body has run
  output      \* the values logged so far

closureVars == <<closureFn, closurePc, env, scope, closures, ran, output>>

VARIABLES
  credentials,   \* the arguments of every call of performLoginAndFetchProfile
  asyncPc,       \* where every call is: "start", "awaitLogin", "awaitProfile", "done"
  promise,       \* the state of the promise every call returned
  reactions,     \* what every registered callback is, by id
  finished,      \* the callbacks whose body has run
  lines,         \* the lines logged so far, each with the call that logged it
  profileCalls   \* the calls that have called getUserProfile

loginVars == <<credentials, asyncPc, promise, reactions, finished, lines, profileCalls>>

\* the classes and components of the other files
restVars == <<gameVars, authVars, appVars, closureVars, loginVars>>

vars == <<travVars, loopVars, schedVars, exVars, restVars>>

\* what an action of one component leaves alone
notTrav == <<loopVars, schedVars, exVars, restVars>>
notLoop == <<travVars, schedVars, exVars, restVars>>
notSched == <<travVars, loopVars, exVars, restVars>>
notLoopExample == <<travVars, schedVars, restVars>>
oldVars == <<travVars, loopVars, schedVars, exVars>>
notGame == <<oldVars, authVars, appVars, closureVars, loginVars>>
notAuth == <<oldVars, gameVars, appVars, closureVars, loginVars>>
notApp == <<oldVars, gameVars, authVars, closureVars, loginVars>>
notLoopClosure == <<travVars, schedVars, exVars, gameVars, authVars, appVars, loginVars>>
notLoopLogin == <<travVars, schedVars, exVars, gameVars, authVars, appVars, closureVars>>

\* no instance of GameCharacter
NoCharacters == characters = [c \in {} |-> 0]

\* what a call returns: { success, userId?, message }
AuthReturn(op, success, userId, message) ==
  [op |-> op, success |-> success, userId |-> userId, message |-> message]

\* AuthService before any call: static #users = []
NoUsers ==
  /\ users = <<>>
  /\ authResult = AuthReturn("none", FALSE, 0, "")

\* the plain object kept in a state hook: toPlainObject()
PlainObject(name, health, attackPower) ==
  [name |-> name, health |-> health, attackPower |-> attackPower]

\* the values of the five state hooks
HookState(heroData, monsterData, turn, message, gameOver) ==
  [heroData |-> heroData, monsterData |-> monsterData, turn |-> turn,
   message |-> message, gameOver |-> gameOver]

\* App is not mounted
NoApp ==
  /\ appState = HookState(PlainObject("none", 0, 0), PlainObject("none", 0, 0),
                          "none", "", FALSE)
  /\ rendered = appState
  /\ effectPending = FALSE

\* none of the closure examples has been called
NoClosure ==
  /\ closureFn = "none"
  /\ closurePc = "none"
  /\ env = <<>>
  /\ scope = 0
  /\ closures = <<>>
  /\ ran = {}
  /\ output = <<>>

\* performLoginAndFetchProfile has not been called
NoLogin ==
  /\ credentials = <<>>
  /\ asyncPc = <<>>
  /\ promise = <<>>
  /\ reactions = <<>>
  /\ finished = {}
  /\ lines = <<>>
  /\ profileCalls = {}

\* nothing of the other files has run
RestIdle == NoCharacters /\ NoUsers /\ NoApp /\ NoClosure /\ NoLogin

\* the script, the callbacks of the examples and the continuation of the
\* async function
Units == {"script", "timeoutCb", "thenCb", "afterAwait"}

\* no example script
NoExample ==
  /\ example = "none"
  /\ ip = [u \in Units |-> 1]
  /\ console = <<>>
  /\ callbacks = <<>>

\* a scheduler after construction: Idle with empty queues
SchedulerNew ==
  /\ schedState = "Idle"
  /\ submitted = <<>>
  /\ microQueue = <<>>
  /\ macroQueue = <<>>
  /\ runningTask = 0
  /\ order = <<>>
  /\ threw = {}
  /\ hookReports = <<>>
  /\ cancelled = {}
  /\ lateCancels = {}

\* the event loop before the script of a file starts
LoopIdle ==
  /\ running = "script"
  /\ current = 0
  /\ tasks = <<>>
  /\ timers = {}
  /\ macrotaskQueue = <<>>
  /\ microtaskQueue = <<>>
  /\ now = 0
  /\ executed = <<>>

Mutations(log) == Cardinality({k \in DOMAIN log : log[k].effect # "none"})

\* the record of one invocation callback(acc?, elem, i, array)
CallEntry(acc, elem, i, out) ==
  [acc |-> acc, elem |-> elem, index |-> i, arr |-> Ref(InputRef),
   kind |-> out.kind, ret |-> out.value, effect |-> out.effect, err |-> out.err]

\* the outcomes the callback may have on its next invocation
MayHappen(out) == out.effect # "none" => Mutations(calls) < MaxMutations

Init ==
  /\ pc = "idle"
  /\ fn = "none"
  /\ \E a \in Arrays(MaxLen) : heap = [r \in {InputRef, NewRef} |-> IF r = InputRef THEN a ELSE <<>>]
  /\ index = 0
  /\ accumulator = Undefined
  /\ argc = 0
  /\ initialValue = Undefined
  /\ s0 = heap[InputRef]
  /\ calls = <<>>
  /\ result = NoValue
  /\ error = NoError
  /\ LoopIdle
  /\ SchedulerNew
  /\ NoExample
  /\ RestIdle

\* a loop that stops one element early
LoopCondShort(i, arr) == i + 1 < Len(arr)

\* for (let index = ...; index < inputArray.length; index++)
LoopCond(i, arr) == i < Len(arr)

\* unshift instead of push
PushFront(arr, v) == <<v>> \o arr

\* newArray.push(v)
Push(arr, v) == Append(arr, v)

\* a call wrapped in a try/catch that swallows the exception
ThrowsSwallowed(out) == FALSE

\* the call of the callback completes abruptly
Throws(out) == out.kind = "throw"

\* const newArray = inputArray;  the result aliases the input
newArrayAliased == InputRef

\* const newArray = [];  a fresh array, distinct from every existing one
newArray == NewRef

\* const filteredArray = [];
filteredArray == NewRef

\* state shared by the four traversals when the callback throws: the
\* exception leaves the function, nothing is returned
Propagate(entry) ==
  /\ calls' = Append(calls, entry)
  /\ pc' = "threw"
  /\ error' = entry.err
  /\ UNCHANGED <<fn, heap, index, accumulator, argc, initialValue, s0, result>>

(***************************************************************************)
(* customMap(inputArray, callback)                                         *)
(***************************************************************************)
customMapCall ==
  /\ pc = "idle"
  /\ UNCHANGED notTrav
  /\ fn' = "customMap"
  /\ heap' = [heap EXCEPT ![newArray] = <<>>]
  /\ index' = 0
  /\ pc' = "loop"
  /\ UNCHANGED <<accumulator, argc, initialValue, s0, calls, result, error>>

customMapIter ==
  /\ pc = "loop" /\ fn = "customMap"
  /\ UNCHANGED notTrav
  /\ LoopCond(index, heap[InputRef])
  /\ \E out \in Outcomes :
       /\ MayHappen(out)
       /\ LET currentElement == GetEl(heap[InputRef], index)
              entry == CallEntry(NoValue, currentElement, index, out)
              transformedValue == out.value
              h1 == [heap EXCEPT ![InputRef] = ApplyEffect(@, out.effect)]
          IN IF Throws(out)
               THEN Propagate(entry)
               ELSE /\ calls' = Append(calls, entry)
                    /\ heap' = [h1 EXCEPT ![newArray] = Push(@, transformedValue)]
                    /\ index' = index + 1
                    /\ UNCHANGED <<pc, fn, accumulator, argc, initialValue, s0, result, error>>

customMapReturn ==
  /\ pc = "loop" /\ fn = "customMap"
  /\ UNCHANGED notTrav
  /\ ~LoopCond(index, heap[InputRef])
  /\ result' = Ref(newArray)
  /\ pc' = "returned"
  /\ UNCHANGED <<fn, heap, index, accumulator, argc, initialValue, s0, calls, error>>

(***************************************************************************)
(* customFilter(inputArray, callback)                                      *)
(***************************************************************************)
customFilterCall ==
  /\ pc = "idle"
  /\ UNCHANGED notTrav
  /\ fn' = "customFilter"
  /\ heap' = [heap EXCEPT ![filteredArray] = <<>>]
  /\ index' = 0
  /\ pc' = "loop"
  /\ UNCHANGED <<accumulator, argc, initialValue, s0, calls, result, error>>

customFilterIter ==
  /\ pc = "loop" /\ fn = "customFilter"
  /\ UNCHANGED notTrav
  /\ LoopCond(index, heap[InputRef])
  /\ \E out \in Outcomes :
       /\ MayHappen(out)
       /\ LET currentElement == GetEl(heap[InputRef], index)
              entry == CallEntry(NoValue, currentElement, index, out)
              shouldInclude == out.value
              h1 == [heap EXCEPT ![InputRef] = ApplyEffect(@, out.effect)]
          IN IF Throws(out)
               THEN Propagate(entry)
               ELSE /\ calls' = Append(calls, entry)
                    /\ heap' = IF Truthy(shouldInclude)
                                 THEN [h1 EXCEPT ![filteredArray] = Push(@, currentElement)]
                                 ELSE h1
                    /\ index' = index + 1
                    /\ UNCHANGED <<pc, fn, accumulator, argc, initialValue, s0, result, error>>

customFilterReturn ==
  /\ pc = "loop" /\ fn = "customFilter"
  /\ UNCHANGED notTrav
  /\ ~LoopCond(index, heap[InputRef])
  /\ result' = Ref(filteredArray)
  /\ pc' = "returned"
  /\ UNCHANGED <<fn, heap, index, accumulator, argc, initialValue, s0, calls, error>>

(***************************************************************************)
(* customFind(inputArray, callback)                                        *)
(***************************************************************************)
customFindCall ==
  /\ pc = "idle"
  /\ UNCHANGED notTrav
  /\ fn' = "customFind"
  /\ index' = 0
  /\ pc' = "loop"
  /\ UNCHANGED <<heap, accumulator, argc, initialValue, s0, calls, result, error>>

\* a search that remembers the match and goes on to the end of the array
customFindIterKeepsGoing ==
  /\ pc = "loop" /\ fn = "customFind"
  /\ UNCHANGED notTrav
  /\ LoopCond(index, heap[InputRef])
  /\ \E out \in Outcomes :
       /\ MayHappen(out)
       /\ LET currentElement == GetEl(heap[InputRef], index)
              entry == CallEntry(NoValue, currentElement, index, out)
          IN IF Throws(out)
               THEN Propagate(entry)
               ELSE /\ calls' = Append(calls, entry)
                    /\ heap' = [heap EXCEPT ![InputRef] = ApplyEffect(@, out.effect)]
                    /\ index' = index + 1
                    /\ UNCHANGED <<pc, result, fn, accumulator, argc, initialValue, s0, error>>

customFindIter ==
  /\ pc = "loop" /\ fn = "customFind"
  /\ UNCHANGED notTrav
  /\ LoopCond(index, heap[InputRef])
  /\ \E out \in Outcomes :
       /\ MayHappen(out)
       /\ LET currentElement == GetEl(heap[InputRef], index)
              entry == CallEntry(NoValue, currentElement, index, out)
              satisfiesCondition == out.value
          IN IF Throws(out)
               THEN Propagate(entry)
               ELSE /\ calls' = Append(calls, entry)
                    /\ heap' = [heap EXCEPT ![InputRef] = ApplyEffect(@, out.effect)]
                    /\ IF Truthy(satisfiesCondition)
                         THEN /\ result' = currentElement
                              /\ pc' = "returned"
                              /\ UNCHANGED index
                         ELSE /\ index' = index + 1
                              /\ UNCHANGED <<pc, result>>
                    /\ UNCHANGED <<fn, accumulator, argc, initialValue, s0, error>>

\* a search that throws when nothing is found
customFindReturnThrows ==
  /\ pc = "loop" /\ fn = "customFind"
  /\ UNCHANGED notTrav
  /\ ~LoopCond(index, heap[InputRef])
  /\ error' = <<"Error", "not found">>
  /\ pc' = "threw"
  /\ UNCHANGED <<fn, heap, index, accumulator, argc, initialValue, s0, calls, result>>

\* a search that returns 0 when nothing is found
customFindReturnZero ==
  /\ pc = "loop" /\ fn = "customFind"
  /\ UNCHANGED notTrav
  /\ ~LoopCond(index, heap[InputRef])
  /\ result' = Num(0)
  /\ pc' = "returned"
  /\ UNCHANGED <<fn, heap, index, accumulator, argc, initialValue, s0, calls, error>>

customFindReturn ==
  /\ pc = "loop" /\ fn = "customFind"
  /\ UNCHANGED notTrav
  /\ ~LoopCond(index, heap[InputRef])
  /\ result' = Undefined
  /\ pc' = "returned"
  /\ UNCHANGED <<fn, heap, index, accumulator, argc, initialValue, s0, calls, error>>

(***************************************************************************)
(* Array.prototype.customReduce = customReduce; this = the input array     *)
(***************************************************************************)
\* if (accumulator === undefined)
InitialValueMissing(acc) == acc = Undefined

\* a missing emptiness check
IsEmptyUnchecked(arr) == Len(arr) < 0

\* if (this.length === 0)
IsEmpty(arr) == Len(arr) = 0

\* accumulator = this[this.length - 1]
FirstElementLast(arr) == GetEl(arr, Len(arr) - 1)

\* accumulator = this[0]
FirstElement(arr) == GetEl(arr, 0)

\* arr.customReduce(callback) and arr.customReduce(callback, init): a
\* parameter that is not passed is undefined
customReduceCall ==
  /\ pc = "idle"
  /\ UNCHANGED notTrav
  /\ fn' = "customReduce"
  /\ \E n \in {1, 2} : \E init \in Values :
       /\ n = 1 => init = Undefined
       /\ argc' = n
       /\ initialValue' = init
       /\ IF InitialValueMissing(init)
            THEN IF IsEmpty(heap[InputRef])
                   THEN /\ error' = EmptyReduceError
                        /\ pc' = "threw"
                        /\ UNCHANGED <<accumulator, index>>
                   ELSE /\ accumulator' = FirstElement(heap[InputRef])
                        /\ index' = 1
                        /\ pc' = "loop"
                        /\ UNCHANGED error
            ELSE /\ accumulator' = init
                 /\ index' = 0
                 /\ pc' = "loop"
                 /\ UNCHANGED error
  /\ UNCHANGED <<heap, s0, calls, result>>

customReduceIter ==
  /\ pc = "loop" /\ fn = "customReduce"
  /\ UNCHANGED notTrav
  /\ LoopCond(index, heap[InputRef])
  /\ IF HasOwnProperty(heap[InputRef], index)
       THEN \E out \in Outcomes :
              /\ MayHappen(out)
              /\ LET currentValue == GetEl(heap[InputRef], index)
                     entry == CallEntry(accumulator, currentValue, index, out)
                 IN IF Throws(out)
                      THEN Propagate(entry)
                      ELSE /\ calls' = Append(calls, entry)
                           /\ heap' = [heap EXCEPT ![InputRef] = ApplyEffect(@, out.effect)]
                           /\ accumulator' = out.value
                           /\ index' = index + 1
                           /\ UNCHANGED <<pc, fn, argc, initialValue, s0, result, error>>
       ELSE /\ index' = index + 1
            /\ UNCHANGED <<pc, fn, heap, accumulator, argc, initialValue, s0, calls, result, error>>

customReduceReturn ==
  /\ pc = "loop" /\ fn = "customReduce"
  /\ UNCHANGED notTrav
  /\ ~LoopCond(index, heap[InputRef])
  /\ result' = accumulator
  /\ pc' = "returned"
  /\ UNCHANGED <<fn, heap, index, accumulator, argc, initialValue, s0, calls, error>>

customMap == customMapCall \/ customMapIter \/ customMapReturn
customFilter == customFilterCall \/ customFilterIter \/ customFilterReturn
customFind == customFindCall \/ customFindIter \/ customFindReturn
customReduce == customReduceCall \/ customReduceIter \/ customReduceReturn

Next == customMap \/ customFilter \/ customFind \/ customReduce

Spec == Init /\ [][Next]_vars

\* the traversal has ended, by a return or by an exception
Done == pc \in {"returned", "threw"}
\* no invocation of the callback modified the input array
Unmodified == Mutations(calls) = 0
\* the array has an element at every index
Dense(arr) == \A k \in DOMAIN arr : arr[k] # Hole
TypeOK == pc \in {"idle", "loop", "returned", "threw"}

(***************************************************************************)
(* Properties of the traversal functions                                   *)
(***************************************************************************)
\* the array a returned reference points to
Returned == heap[result[2]]

\* invocation k of the callback was made for index k-1 of the original array
CalledInOrder(n) ==
  /\ Len(calls) = n
  /\ \A k \in 1..n :
       /\ calls[k].index = k - 1
       /\ calls[k].elem = GetEl(s0, k - 1)
       /\ calls[k].arr = Ref(InputRef)

\* C1: for every array s and callback f that does not modify s, customMap
\* returns a new array of the length of s whose element i is the value f
\* returned for (s[i], i, s)
C1_MapContract ==
  (pc = "returned" /\ fn = "customMap" /\ Unmodified) =>
     /\ result[1] = "ref" /\ result[2] # InputRef
     /\ Len(Returned) = Len(s0)
     /\ CalledInOrder(Len(s0))
     /\ \A k \in 1..Len(s0) : Returned[k] = calls[k].ret

C1_Witness ==
  /\ pc = "returned" /\ fn = "customMap" /\ Unmodified
  /\ Len(s0) >= 2
  /\ Returned[1] # Returned[2]
  /\ Returned # s0

\* the indices (1-based) whose invocation returned a truthy value, ascending
TruthyCalls == SelectSeq([k \in 1..Len(calls) |-> k], LAMBDA k : calls[k].ret[1] = "num" /\ calls[k].ret[2] # 0)

\* C2: customFilter returns exactly the elements of s for which the
\* predicate returned a truthy value, in the order they have in s, none
\* omitted; the result is never longer than s
C2_FilterContract ==
  (pc = "returned" /\ fn = "customFilter" /\ Unmodified) =>
     /\ result[1] = "ref"
     /\ CalledInOrder(Len(s0))
     /\ Returned = [j \in 1..Len(TruthyCalls) |-> GetEl(s0, TruthyCalls[j] - 1)]
     /\ Len(Returned) <= Len(s0)

C2_Witness ==
  /\ pc = "returned" /\ fn = "customFilter" /\ Unmodified
  /\ Len(s0) = 3
  /\ Len(Returned) = 2
  /\ Returned[1] # Returned[2]
  /\ calls[2].ret = Num(0)

\* C3: customFind returns the element at the lowest index whose predicate
\* call is truthy, and undefined when no element satisfies the predicate
\* (always so for the empty array)
C3_FindContract ==
  (pc = "returned" /\ fn = "customFind" /\ Unmodified) =>
     /\ IF TruthyCalls # <<>>
          THEN /\ TruthyCalls = <<Len(calls)>>
               /\ CalledInOrder(Len(calls))
               /\ Len(calls) <= Len(s0)
               /\ result = GetEl(s0, Len(calls) - 1)
          ELSE /\ CalledInOrder(Len(s0))
               /\ result = Undefined
     /\ s0 = <<>> => result = Undefined

C3_Witness ==
  /\ pc = "returned" /\ fn = "customFind" /\ Unmodified
  /\ Len(s0) = 3 /\ Len(calls) = 2
  /\ result = Num(1)
  /\ s0[3] = Num(0)

C3_WitnessNotFound ==
  /\ pc = "returned" /\ fn = "customFind" /\ Len(calls) = 2 /\ result = Undefined

\* the accumulator passed to invocation k is first, then what invocation
\* k-1 returned
Threaded(first) ==
  \A k \in 1..Len(calls) : calls[k].acc = IF k = 1 THEN first ELSE calls[k - 1].ret

\* the value the fold ends with
Folded(first) == IF calls = <<>> THEN first ELSE calls[Len(calls)].ret

\* no invocation of the reducer threw
NoThrow == \A k \in DOMAIN calls : calls[k].kind = "return"

\* C4: with an initial value supplied (whatever its value) customReduce
\* starts the accumulator at it and calls the reducer once for every index
\* 0..length-1 in ascending order, threading the accumulator; so
\* reduce([a], f, init) = f(init, a, 0, [a])
C4_ReduceWithInit ==
  (Done /\ fn = "customReduce" /\ argc = 2 /\ Unmodified /\ NoThrow
        /\ s0 # <<>> /\ Dense(s0)) =>
     /\ pc = "returned"
     /\ CalledInOrder(Len(s0))
     /\ Threaded(initialValue)
     /\ result = Folded(initialValue)

\* the indices 1..length-1 of the original array that hold an element
PresentFrom1 == SelectSeq([k \in 1..(Len(s0) - 1) |-> k], LAMBDA k : s0[k + 1] # Hole)

C5_WitnessOne ==
  /\ pc = "returned" /\ fn = "customReduce" /\ argc = 1 /\ Len(s0) = 1 /\ result = Num(1)

\* C6: customReduce on an empty array without an initial value throws the
\* TypeError 'Reduce of empty array with no initial value', never calls
\* the reducer and returns nothing
C6_EmptyNoInitThrows ==
  (fn = "customReduce" /\ argc = 1 /\ s0 = <<>>) =>
     /\ pc = "threw"
     /\ error = EmptyReduceError
     /\ calls = <<>>
     /\ result = NoValue

C6_Witness ==
  fn = "customReduce" /\ argc = 1 /\ s0 = <<>> /\ pc = "threw"

\* C7: customReduce on an empty array with a supplied initial value
\* returns that value, never calls the reducer and never throws, whatever
\* the value supplied
C7_EmptyWithInit ==
  (Done /\ fn = "customReduce" /\ argc = 2 /\ s0 = <<>>) =>
     /\ pc = "returned"
     /\ result = initialValue
     /\ calls = <<>>
     /\ error = NoError

\* the original array with the modifications the callback made, in order
RECURSIVE Replay(_, _)
Replay(arr, log) ==
  IF log = <<>> THEN arr
  ELSE Replay(IF log[1].effect = "push" THEN arr \o <<Num(1)>>
              ELSE IF log[1].effect = "pop" /\ arr # <<>> THEN SubSeq(arr, 1, Len(arr) - 1)
              ELSE arr,
              Tail(log))

\* C8: the four traversals never modify the input array (it changes only
\* by what the callback itself does to it), also when they throw, and the
\* array customMap and customFilter return is not the input array
C8_InputUntouched ==
  /\ heap[InputRef] = Replay(s0, calls)
  /\ Unmodified => heap[InputRef] = s0
  /\ (pc = "returned" /\ fn \in {"customMap", "customFilter"}) =>
        result[1] = "ref" /\ result[2] # InputRef

C8_Witness ==
  /\ pc = "returned" /\ fn = "customMap" /\ Unmodified
  /\ Len(s0) = 2 /\ Len(Returned) = 2 /\ Returned # s0

C8_WitnessThrow ==
  /\ pc = "threw" /\ fn = "customFilter" /\ Len(s0) = 2 /\ Len(calls) = 2

\* C9: when the callback throws at index k, that exception reaches the
\* caller, the callback is not invoked again, and nothing is returned
C9_ThrowPropagates ==
  \A k \in DOMAIN calls :
     calls[k].kind = "throw" =>
        /\ k = Len(calls)
        /\ pc = "threw"
        /\ error = calls[k].err
        /\ result = NoValue
        /\ \A j \in 1..(k - 1) : calls[j].index < calls[k].index

C9_Witness ==
  /\ pc = "threw" /\ fn = "customMap"
  /\ Len(calls) = 2 /\ calls[2].kind = "throw"
  /\ Len(s0) = 3
  /\ heap[NewRef] # <<>>

(***************************************************************************)
(* The event loop the asynchronous examples run on: the call stack, the    *)
(* background timers of setTimeout, the macrotask queue and the microtask  *)
(* queue.  A piece of running code (the script or a callback) may register *)
(* any callbacks; which ones it registers is left open.                    *)
(***************************************************************************)
InitLoop ==
  /\ pc = "idle"
  /\ fn = "none"
  /\ heap = [r \in {InputRef, NewRef} |-> <<>>]
  /\ index = 0
  /\ accumulator = Undefined
  /\ argc = 0
  /\ initialValue = Undefined
  /\ s0 = <<>>
  /\ calls = <<>>
  /\ result = NoValue
  /\ error = NoError
  /\ LoopIdle
  /\ SchedulerNew
  /\ NoExample
  /\ RestIdle

\* a callback registered by the code that is running now
NewTask(class, delay) ==
  [class |-> class, due |-> now + delay, submittedAt |-> Len(executed)]

\* setTimeout(callback, delay): the timer runs in the background
SetTimeout ==
  /\ running # "none"
  /\ Len(tasks) < MaxTasks
  /\ \E delay \in 0..MaxDelay :
       /\ tasks' = Append(tasks, NewTask("macro", delay))
       /\ timers' = timers \cup {Len(tasks) + 1}
  /\ UNCHANGED <<running, current, macrotaskQueue, microtaskQueue, now, executed>>
  /\ UNCHANGED notLoop

\* Promise.resolve().then(callback), await of a settled promise, the
\* resolution of a promise that has a reaction: the reaction or continuation
\* goes to the microtask queue
PromiseThen ==
  /\ running # "none"
  /\ Len(tasks) < MaxTasks
  /\ tasks' = Append(tasks, NewTask("micro", 0))
  /\ microtaskQueue' = Append(microtaskQueue, Len(tasks) + 1)
  /\ UNCHANGED <<running, current, timers, macrotaskQueue, now, executed>>
  /\ UNCHANGED notLoop

\* the running script or callback finishes: the call stack is empty
CallStackEmpties ==
  /\ running # "none"
  /\ running' = "none"
  /\ current' = 0
  /\ UNCHANGED <<tasks, timers, macrotaskQueue, microtaskQueue, now, executed>>
  /\ UNCHANGED notLoop

\* time passes
Tick ==
  /\ now < MaxTime
  /\ now' = now + 1
  /\ UNCHANGED <<running, current, tasks, timers, macrotaskQueue, microtaskQueue, executed>>
  /\ UNCHANGED notLoop

\* timer a fires before timer b: earlier expiry, then earlier registration
FiresBefore(a, b) ==
  \/ tasks[a].due < tasks[b].due
  \/ tasks[a].due = tasks[b].due /\ a < b

\* after its delay the callback of a timer is moved to the macrotask queue
TimerFires ==
  /\ \E id \in timers :
       /\ tasks[id].due <= now
       /\ \A other \in timers \ {id} : FiresBefore(id, other)
       /\ timers' = timers \ {id}
       /\ macrotaskQueue' = Append(macrotaskQueue, id)
  /\ UNCHANGED <<running, current, tasks, microtaskQueue, now, executed>>
  /\ UNCHANGED notLoop

\* the entry the event loop leaves when it starts a callback
Started(id) ==
  [id |-> id, class |-> tasks[id].class, microPending |-> Len(microtaskQueue)]

\* an event loop that takes the microtask queued last
RunMicrotaskNewest ==
  /\ running = "none"
  /\ microtaskQueue # <<>>
  /\ running' = "micro"
  /\ current' = microtaskQueue[Len(microtaskQueue)]
  /\ microtaskQueue' = SubSeq(microtaskQueue, 1, Len(microtaskQueue) - 1)
  /\ executed' = Append(executed,
        [Started(microtaskQueue[Len(microtaskQueue)]) EXCEPT !.microPending = @ - 1])
  /\ UNCHANGED <<tasks, timers, macrotaskQueue, now>>
  /\ UNCHANGED notLoop

\* with the call stack empty the event loop processes the microtask queue
RunMicrotask ==
  /\ running = "none"
  /\ microtaskQueue # <<>>
  /\ running' = "micro"
  /\ current' = Head(microtaskQueue)
  /\ microtaskQueue' = Tail(microtaskQueue)
  /\ executed' = Append(executed, [Started(Head(microtaskQueue)) EXCEPT !.microPending = @ - 1])
  /\ UNCHANGED <<tasks, timers, macrotaskQueue, now>>
  /\ UNCHANGED notLoop

\* an event loop that drains the microtask queue once and then runs the
\* macrotasks one after the other
MayRunMacrotaskBatch ==
  /\ running = "none"
  /\ macrotaskQueue # <<>>
  /\ \/ microtaskQueue = <<>>
     \/ executed # <<>> /\ executed[Len(executed)].class = "macro"

\* an event loop that only waits for the call stack to be empty
MayRunMacrotaskAnyTime == running = "none" /\ macrotaskQueue # <<>>

\* the event loop takes a macrotask when the call stack is empty and every
\* microtask has been processed
MayRunMacrotask == running = "none" /\ microtaskQueue = <<>> /\ macrotaskQueue # <<>>

\* one macrotask at a time: the first callback of the macrotask queue
RunMacrotask ==
  /\ MayRunMacrotask
  /\ running' = "macro"
  /\ current' = Head(macrotaskQueue)
  /\ macrotaskQueue' = Tail(macrotaskQueue)
  /\ executed' = Append(executed, Started(Head(macrotaskQueue)))
  /\ UNCHANGED <<tasks, timers, microtaskQueue, now>>
  /\ UNCHANGED notLoop

LoopNext ==
  \/ SetTimeout
  \/ PromiseThen
  \/ CallStackEmpties
  \/ Tick
  \/ TimerFires
  \/ RunMicrotask
  \/ RunMacrotask

EventLoopSpec == InitLoop /\ [][LoopNext]_vars

\* the position at which callback id was run, 0 if it has not run yet
RECURSIVE PosFrom(_, _)
PosFrom(id, k) ==
  IF k > Len(executed) THEN 0
  ELSE IF executed[k].id = id THEN k
  ELSE PosFrom(id, k + 1)

Position(id) == PosFrom(id, 1)

\* C10: a macrotask is dequeued only when the microtask queue is empty:
\* every microtask queued before a macrotask starts, also one queued by a
\* running microtask, has run before that macrotask
C10_MicrotasksBeforeMacrotask ==
  \A p \in DOMAIN executed :
     executed[p].class = "macro" =>
        /\ executed[p].microPending = 0
        /\ \A id \in DOMAIN tasks :
             (tasks[id].class = "micro" /\ tasks[id].submittedAt < p) =>
                (Position(id) > 0 /\ Position(id) < p)

\* a microtask queued by a microtask ran before a macrotask that was
\* already waiting in the macrotask queue, and a second macrotask followed
C10_Witness ==
  /\ Len(executed) = 4
  /\ executed[1].class = "micro"
  /\ executed[2].class = "micro" /\ tasks[executed[2].id].submittedAt = 1
  /\ executed[3].class = "macro" /\ executed[3].id < executed[1].id
  /\ executed[4].class = "macro"

\* the microtasks registered so far
Microtasks == {id \in DOMAIN tasks : tasks[id].class = "micro"}

\* C12: microtasks run in strict FIFO order of submission: of two
\* microtasks the one submitted first runs first, also when the second was
\* submitted by a running callback
C12_MicrotasksFIFO ==
  \A a, b \in Microtasks :
     (a < b /\ Position(b) > 0) => (Position(a) > 0 /\ Position(a) < Position(b))

\* microtask b was submitted by a running microtask while microtask a, queued
\* by the script, was waiting: a ran first, b right after it
C12_Witness ==
  \E a, b \in Microtasks :
     /\ a < b
     /\ tasks[a].submittedAt = 0 /\ tasks[b].submittedAt = 1
     /\ Position(a) = 2 /\ Position(b) = 3

\* C13: a microtask submitted after a macrotask, before that macrotask
\* starts, runs before it; a microtask submitted by the body of a macrotask
\* runs before any further macrotask: from the submission of a microtask
\* to its execution the event loop runs microtasks only, so one macrotask
\* at most runs between two drains of the microtask queue
C13_OneMacrotaskPerDrain ==
  \A u \in Microtasks :
     \A p \in DOMAIN executed :
        (p > tasks[u].submittedAt /\ (Position(u) = 0 \/ p < Position(u))) =>
           executed[p].class = "micro"

\* U1, M1, U2 and a further macrotask: M1 was registered before U1, U2 was
\* submitted by the body of M1 and ran before the macrotask that followed
C13_Witness ==
  /\ Len(executed) = 4
  /\ executed[1].class = "micro" /\ tasks[executed[1].id].submittedAt = 0
  /\ executed[2].class = "macro" /\ executed[2].id < executed[1].id
  /\ executed[3].class = "micro" /\ tasks[executed[3].id].submittedAt = 2
  /\ executed[4].class = "macro" /\ tasks[executed[4].id].submittedAt < 3

(***************************************************************************)
(* The two priority examples, run statement by statement on the event      *)
(* loop.                                                                   *)
(***************************************************************************)
Examples == {"promises-vs-async-await", "function-introduction"}

Stmt(op, arg) == [op |-> op, arg |-> arg]

\* the statements of the script of an example and of its callbacks; the
\* async function is called by the script and runs on the script's stack up
\* to its await, which hands the rest of the body over as "afterAwait"
Program(ex, unit) ==
  IF ex = "promises-vs-async-await"
    THEN CASE unit = "script" ->
                <<Stmt("log", "3. Global Start"),
                  Stmt("setTimeout", "timeoutCb"),
                  Stmt("then", "thenCb"),
                  Stmt("log", "3. Async function start"),
                  Stmt("await", "afterAwait"),
                  Stmt("log", "3. Global End")>>
           [] unit = "timeoutCb" -> <<Stmt("log", "3. Macrotask (setTimeout)")>>
           [] unit = "thenCb" -> <<Stmt("log", "3. Microtask (Promise.then)")>>
           [] unit = "afterAwait" ->
                <<Stmt("log", "3. Async function after await (Microtask)")>>
    ELSE CASE unit = "script" ->
                <<Stmt("log", "3. Start"),
                  Stmt("setTimeout", "timeoutCb"),
                  Stmt("then", "thenCb"),
                  Stmt("log", "3. End")>>
           [] unit = "timeoutCb" -> <<Stmt("log", "3. Timeout callback executed")>>
           [] unit = "thenCb" -> <<Stmt("log", "3. Promise resolved")>>
           [] unit = "afterAwait" -> <<>>

\* the output the example files give
ExpectedOutput(ex) ==
  IF ex = "promises-vs-async-await"
    THEN <<"3. Global Start",
           "3. Async function start",
           "3. Global End",
           "3. Microtask (Promise.then)",
           "3. Async function after await (Microtask)",
           "3. Macrotask (setTimeout)">>
    ELSE <<"3. Start", "3. End", "3. Promise resolved", "3. Timeout callback executed">>

InitExample ==
  /\ pc = "idle"
  /\ fn = "none"
  /\ heap = [r \in {InputRef, NewRef} |-> <<>>]
  /\ index = 0
  /\ accumulator = Undefined
  /\ argc = 0
  /\ initialValue = Undefined
  /\ s0 = <<>>
  /\ calls = <<>>
  /\ result = NoValue
  /\ error = NoError
  /\ LoopIdle
  /\ SchedulerNew
  /\ example \in Examples
  /\ ip = [u \in Units |-> 1]
  /\ console = <<>>
  /\ callbacks = <<>>
  /\ RestIdle

\* the code on the call stack
Unit == IF running = "script" THEN "script" ELSE callbacks[current]

\* the statement the call stack is at
AtStatement(op) ==
  /\ running # "none"
  /\ ip[Unit] <= Len(Program(example, Unit))
  /\ Program(example, Unit)[ip[Unit]].op = op

Argument == Program(example, Unit)[ip[Unit]].arg

Advance == ip' = [ip EXCEPT ![Unit] = @ + 1]

\* console.log(line)
ConsoleLog ==
  /\ AtStatement("log")
  /\ console' = Append(console, Argument)
  /\ Advance
  /\ UNCHANGED <<example, callbacks>>
  /\ UNCHANGED loopVars
  /\ UNCHANGED notLoopExample

\* setTimeout(callback, 0)
SetTimeoutZero ==
  /\ AtStatement("setTimeout")
  /\ tasks' = Append(tasks, NewTask("macro", 0))
  /\ timers' = timers \cup {Len(tasks) + 1}
  /\ callbacks' = Append(callbacks, Argument)
  /\ Advance
  /\ UNCHANGED <<running, current, macrotaskQueue, microtaskQueue, now, executed>>
  /\ UNCHANGED <<example, console>>
  /\ UNCHANGED notLoopExample

\* Promise.resolve().then(callback): the promise is resolved, the callback
\* goes to the microtask queue
ResolvedThen ==
  /\ AtStatement("then")
  /\ tasks' = Append(tasks, NewTask("micro", 0))
  /\ microtaskQueue' = Append(microtaskQueue, Len(tasks) + 1)
  /\ callbacks' = Append(callbacks, Argument)
  /\ Advance
  /\ UNCHANGED <<running, current, timers, macrotaskQueue, now, executed>>
  /\ UNCHANGED <<example, console>>
  /\ UNCHANGED notLoopExample

\* an await that does not suspend on a promise that is already resolved:
\* the rest of the async function runs at once
AwaitResolvedInline ==
  /\ AtStatement("await")
  /\ console' = Append(console, Program(example, Argument)[1].arg)
  /\ Advance
  /\ UNCHANGED <<example, callbacks>>
  /\ UNCHANGED loopVars
  /\ UNCHANGED notLoopExample

\* await Promise.resolve(): the async function is suspended, its
\* continuation goes to the microtask queue and the caller goes on
AwaitResolved ==
  /\ AtStatement("await")
  /\ tasks' = Append(tasks, NewTask("micro", 0))
  /\ microtaskQueue' = Append(microtaskQueue, Len(tasks) + 1)
  /\ callbacks' = Append(callbacks, Argument)
  /\ Advance
  /\ UNCHANGED <<running, current, timers, macrotaskQueue, now, executed>>
  /\ UNCHANGED <<example, console>>
  /\ UNCHANGED notLoopExample

\* the script or the callback has no statement left
CodeEnded == running # "none" /\ ip[Unit] > Len(Program(example, Unit))

EndOfCode ==
  /\ CodeEnded
  /\ CallStackEmpties

ExampleNext ==
  \/ ConsoleLog
  \/ SetTimeoutZero
  \/ ResolvedThen
  \/ AwaitResolved
  \/ EndOfCode
  \/ Tick
  \/ TimerFires
  \/ RunMicrotask
  \/ RunMacrotask

ExampleSpec == InitExample /\ [][ExampleNext]_vars

\* q starts with p
IsPrefix(p, q) == Len(p) <= Len(q) /\ SubSeq(q, 1, Len(p)) = p

\* nothing is running and nothing is left to run
Finished ==
  /\ running = "none"
  /\ timers = {} /\ macrotaskQueue = <<>> /\ microtaskQueue = <<>>

\* C20: in the priority examples the synchronous statements of the script,
\* the start of the async function included, log first; then the callback
\* of Promise.then, then the continuation of the await, and the callback of
\* setTimeout(..., 0) last although it was registered first: what is logged
\* is at every moment the beginning of that output, and all of it at the end
C20_PriorityOutput ==
  /\ IsPrefix(console, ExpectedOutput(example))
  /\ Finished => console = ExpectedOutput(example)

\* the example with the async function has run to its end: the timer
\* registered first logged last
C20_Witness ==
  /\ example = "promises-vs-async-await"
  /\ Finished
  /\ Len(console) = 6
  /\ callbacks[1] = "timeoutCb"
  /\ executed[Len(executed)].id = 1

(***************************************************************************)
(* The deterministic task scheduler: submitMicrotask, submitMacrotask,     *)
(* cancellation, runToCompletion and the error hook.  A delay is an        *)
(* ordering key, not a time.                                               *)
(***************************************************************************)
InitScheduler ==
  /\ pc = "idle"
  /\ fn = "none"
  /\ heap = [r \in {InputRef, NewRef} |-> <<>>]
  /\ index = 0
  /\ accumulator = Undefined
  /\ argc = 0
  /\ initialValue = Undefined
  /\ s0 = <<>>
  /\ calls = <<>>
  /\ result = NoValue
  /\ error = NoError
  /\ LoopIdle
  /\ SchedulerNew
  /\ NoExample
  /\ RestIdle

\* the elements of a queue
InQueue(q) == {q[k] : k \in DOMAIN q}

\* a task as the scheduler sees it: its class and its delay key; its
\* submission sequence number is its place in submitted
Task(class, delay) == [class |-> class, delay |-> delay]

\* an insertion that puts a task in front of the queued tasks of equal delay
InsertByDelayTiesFirst(q, id, tbl) ==
  SelectSeq(q, LAMBDA x : tbl[x].delay < tbl[id].delay)
    \o <<id>> \o SelectSeq(q, LAMBDA x : tbl[x].delay >= tbl[id].delay)

\* insert into the macrotask queue ordered by (delay, submission sequence
\* number): the new task has the highest number, so it goes after every
\* queued task whose delay is not larger
InsertByDelay(q, id, tbl) ==
  SelectSeq(q, LAMBDA x : tbl[x].delay <= tbl[id].delay)
    \o <<id>> \o SelectSeq(q, LAMBDA x : tbl[x].delay > tbl[id].delay)

\* a queue without one task, the others in the order they had
\* (a removal that takes the head of the queue whatever the identity)
WithoutHead(q, id) == IF id \in InQueue(q) THEN Tail(q) ELSE q

Without(q, id) == SelectSeq(q, LAMBDA x : x # id)

\* who can call the scheduler: its owner while no run is in progress, and
\* the body of the task that is executing
MayCall == schedState \in {"Idle", "Drained"} \/ runningTask # 0

\* a submission does not change the state, except that Drained, which has
\* both queues empty, is left for Idle
AfterSubmission == IF schedState = "Drained" THEN "Idle" ELSE schedState

submitMicrotask ==
  /\ MayCall
  /\ Len(submitted) < MaxSubmit
  /\ submitted' = Append(submitted, Task("micro", 0))
  /\ microQueue' = Append(microQueue, Len(submitted) + 1)
  /\ schedState' = AfterSubmission
  /\ UNCHANGED <<macroQueue, runningTask, order, threw, hookReports, cancelled, lateCancels>>
  /\ UNCHANGED notSched

submitMacrotask ==
  /\ MayCall
  /\ Len(submitted) < MaxSubmit
  /\ \E delay \in 0..MaxDelay :
       /\ submitted' = Append(submitted, Task("macro", delay))
       /\ macroQueue' = InsertByDelay(macroQueue, Len(submitted) + 1, submitted')
  /\ schedState' = AfterSubmission
  /\ UNCHANGED <<microQueue, runningTask, order, threw, hookReports, cancelled, lateCancels>>
  /\ UNCHANGED notSched

\* remove a task from its queue by identity; a task that was already popped
\* cannot be cancelled
cancel ==
  /\ MayCall
  /\ \E id \in DOMAIN submitted :
       IF id \in InQueue(microQueue) \cup InQueue(macroQueue)
         THEN /\ microQueue' = Without(microQueue, id)
              /\ macroQueue' = Without(macroQueue, id)
              /\ cancelled' = cancelled \cup {id}
              /\ UNCHANGED lateCancels
         ELSE /\ id \notin cancelled
              /\ id \notin lateCancels
              /\ Cardinality(threw) + Cardinality(lateCancels) < MaxFaults
              /\ lateCancels' = lateCancels \cup {id}
              /\ UNCHANGED <<microQueue, macroQueue, cancelled>>
  /\ UNCHANGED <<schedState, submitted, runningTask, order, threw, hookReports>>
  /\ UNCHANGED notSched

\* a run that finds nothing to do and goes back to Idle
runToCompletionResets ==
  /\ schedState \in {"Idle", "Drained"}
  /\ schedState' = IF microQueue = <<>> /\ macroQueue = <<>> THEN "Idle" ELSE "Draining"
  /\ UNCHANGED <<submitted, microQueue, macroQueue, runningTask, order, threw,
                 hookReports, cancelled, lateCancels>>
  /\ UNCHANGED notSched

\* runToCompletion(): enter Draining; with nothing queued the run is over
\* at once
runToCompletion ==
  /\ schedState \in {"Idle", "Drained"}
  /\ schedState' = IF microQueue = <<>> /\ macroQueue = <<>> THEN "Drained" ELSE "Draining"
  /\ UNCHANGED <<submitted, microQueue, macroQueue, runningTask, order, threw,
                 hookReports, cancelled, lateCancels>>
  /\ UNCHANGED notSched

\* step (a): pop and execute the head of the microtask queue
popMicrotask ==
  /\ schedState = "Draining" /\ runningTask = 0
  /\ microQueue # <<>>
  /\ runningTask' = Head(microQueue)
  /\ microQueue' = Tail(microQueue)
  /\ order' = Append(order, Head(microQueue))
  /\ UNCHANGED <<schedState, submitted, macroQueue, threw, hookReports, cancelled, lateCancels>>
  /\ UNCHANGED notSched

\* a scheduler that leaves the macrotask it runs in the queue
popMacrotaskKeeps ==
  /\ schedState = "Draining" /\ runningTask = 0
  /\ microQueue = <<>>
  /\ macroQueue # <<>>
  /\ Head(macroQueue) \notin InQueue(order)
  /\ runningTask' = Head(macroQueue)
  /\ order' = Append(order, Head(macroQueue))
  /\ schedState' = "RunningMacrotask"
  /\ UNCHANGED <<submitted, microQueue, macroQueue, threw, hookReports, cancelled, lateCancels>>
  /\ UNCHANGED notSched

\* a scheduler that takes any queued macrotask
popMacrotaskAny ==
  /\ schedState = "Draining" /\ runningTask = 0
  /\ microQueue = <<>>
  /\ \E k \in DOMAIN macroQueue :
       /\ runningTask' = macroQueue[k]
       /\ macroQueue' = Without(macroQueue, macroQueue[k])
       /\ order' = Append(order, macroQueue[k])
  /\ schedState' = "RunningMacrotask"
  /\ UNCHANGED <<submitted, microQueue, threw, hookReports, cancelled, lateCancels>>
  /\ UNCHANGED notSched

\* step (b): with the microtask queue empty, pop the head of the macrotask
\* queue and execute it once
popMacrotask ==
  /\ schedState = "Draining" /\ runningTask = 0
  /\ microQueue = <<>>
  /\ macroQueue # <<>>
  /\ runningTask' = Head(macroQueue)
  /\ macroQueue' = Tail(macroQueue)
  /\ order' = Append(order, Head(macroQueue))
  /\ schedState' = "RunningMacrotask"
  /\ UNCHANGED <<submitted, microQueue, threw, hookReports, cancelled, lateCancels>>
  /\ UNCHANGED notSched

\* the body of the running task ends: back to step (a)
taskReturns ==
  /\ runningTask # 0
  /\ runningTask' = 0
  /\ schedState' = "Draining"
  /\ UNCHANGED <<submitted, microQueue, macroQueue, order, threw, hookReports, cancelled, lateCancels>>
  /\ UNCHANGED notSched

\* a scheduler that gives up the run when a task fails
taskThrowsAborts ==
  /\ runningTask # 0
  /\ Cardinality(threw) + Cardinality(lateCancels) < MaxFaults
  /\ threw' = threw \cup {runningTask}
  /\ hookReports' = Append(hookReports, runningTask)
  /\ runningTask' = 0
  /\ schedState' = "Idle"
  /\ microQueue' = <<>>
  /\ macroQueue' = <<>>
  /\ UNCHANGED <<submitted, order, cancelled, lateCancels>>
  /\ UNCHANGED notSched

\* the body of the running task throws: the scheduler catches the
\* exception, reports it to the registered error hook and goes on draining
taskThrows ==
  /\ runningTask # 0
  /\ Cardinality(threw) + Cardinality(lateCancels) < MaxFaults
  /\ threw' = threw \cup {runningTask}
  /\ hookReports' = Append(hookReports, runningTask)
  /\ runningTask' = 0
  /\ schedState' = "Draining"
  /\ UNCHANGED <<submitted, microQueue, macroQueue, order, cancelled, lateCancels>>
  /\ UNCHANGED notSched

\* a run that ends as soon as the microtask queue is empty
enterDrainedEarly ==
  /\ schedState = "Draining" /\ runningTask = 0
  /\ microQueue = <<>>
  /\ schedState' = "Drained"
  /\ UNCHANGED <<submitted, microQueue, macroQueue, runningTask, order, threw,
                 hookReports, cancelled, lateCancels>>
  /\ UNCHANGED notSched

\* step (c): both queues are empty
enterDrained ==
  /\ schedState = "Draining" /\ runningTask = 0
  /\ microQueue = <<>> /\ macroQueue = <<>>
  /\ schedState' = "Drained"
  /\ UNCHANGED <<submitted, microQueue, macroQueue, runningTask, order, threw,
                 hookReports, cancelled, lateCancels>>
  /\ UNCHANGED notSched

SchedulerNext ==
  \/ submitMicrotask
  \/ submitMacrotask
  \/ cancel
  \/ runToCompletion
  \/ popMicrotask
  \/ popMacrotask
  \/ taskReturns
  \/ taskThrows
  \/ enterDrained

SchedulerSpec == InitScheduler /\ [][SchedulerNext]_vars

\* the run makes progress, and the body of a task ends
SchedulerFairSpec ==
  /\ SchedulerSpec
  /\ WF_vars(popMicrotask)
  /\ WF_vars(popMacrotask)
  /\ WF_vars(taskReturns \/ taskThrows)
  /\ WF_vars(enterDrained)

SchedTypeOK == schedState \in {"Idle", "Draining", "RunningMacrotask", "Drained"}

\* the tasks of a class that are waiting: submitted, not popped, not
\* cancelled
Pending(class) ==
  {id \in DOMAIN submitted :
     submitted[id].class = class /\ id \notin InQueue(order) /\ id \notin cancelled}

\* macrotask a goes before macrotask b: smaller delay, then earlier
\* submission
MacroBefore(a, b) ==
  \/ submitted[a].delay < submitted[b].delay
  \/ submitted[a].delay = submitted[b].delay /\ a < b

\* C11: macrotasks execute in ascending order of delay, and in submission
\* order when the delays are equal: the macrotask that is popped goes before
\* every other macrotask that is waiting
C11_MacrotasksByDelay ==
  [][(order' # order /\ submitted[runningTask'].class = "macro") =>
        \A q \in Pending("macro") \ {runningTask'} : MacroBefore(runningTask', q)]_vars

\* M1 and M2 with the same delay and M3 with a smaller one, submitted in
\* that order, were executed M3, M1, M2
C11_Witness ==
  /\ order = <<3, 1, 2>>
  /\ \A id \in 1..3 : submitted[id].class = "macro"
  /\ submitted[1].delay = submitted[2].delay
  /\ submitted[3].delay < submitted[1].delay

\* how many times id occurs in q
Count(q, id) == Cardinality({k \in DOMAIN q : q[k] = id})

\* C14: when the body of a task throws, the scheduler catches the
\* exception, reports it once to the error hook and goes on draining: both
\* queues are as they were, so every task that was queued still executes in
\* the order it had
C14_ThrowIsolated ==
  [][threw' # threw =>
        /\ threw' = threw \cup {runningTask}
        /\ hookReports' = Append(hookReports, runningTask)
        /\ microQueue' = microQueue /\ macroQueue' = macroQueue
        /\ order' = order
        /\ runningTask' = 0 /\ schedState' = "Draining"]_vars

\* a microtask threw while a macrotask was queued: the hook got the report
\* and the macrotask was executed after it
C14_Witness ==
  /\ order = <<2, 1>>
  /\ submitted[2].class = "micro" /\ submitted[1].class = "macro"
  /\ threw = {2} /\ hookReports = <<2>>

\* C15: a task that was submitted is in one place only (waiting in a queue,
\* popped for execution, or cancelled), so it is never executed twice, and
\* when the run is over every task that was not cancelled has executed
\* exactly once
C15_ExactlyOnce ==
  /\ \A id \in DOMAIN submitted :
       Count(order, id) + Count(microQueue, id) + Count(macroQueue, id)
         + (IF id \in cancelled THEN 1 ELSE 0) = 1
  /\ schedState = "Drained" =>
       \A id \in DOMAIN submitted : id \notin cancelled => Count(order, id) = 1

\* three tasks of both classes were executed once each although one of them
\* threw
C15_Witness ==
  /\ schedState = "Drained"
  /\ Len(submitted) = 3 /\ Len(order) = 3
  /\ threw # {} /\ cancelled = {}
  /\ \E a, b \in DOMAIN submitted : submitted[a].class # submitted[b].class

\* C16: a run reaches Drained; in Drained both queues are empty; a
\* submission made in Drained takes the scheduler out of Drained
C16_RunTerminates ==
  /\ (schedState \in {"Draining", "RunningMacrotask"}) ~> (schedState = "Drained")
  /\ [](schedState = "Drained" => (microQueue = <<>> /\ macroQueue = <<>>))
  /\ [][(schedState = "Drained" /\ submitted' # submitted) => schedState' = "Idle"]_vars

\* the scheduler ran two tasks to Drained, then got a new task and left
\* Drained
C16_Witness ==
  /\ schedState = "Idle"
  /\ Len(order) = 2
  /\ Len(submitted) = 3 /\ Pending(submitted[3].class) = {3}

\* C17: on a Drained scheduler nothing but a submission changes the state:
\* runToCompletion executes no task and leaves the scheduler Drained with
\* both queues empty
C17_RunOnDrained ==
  [][(schedState = "Drained" /\ submitted' = submitted) =>
        /\ schedState' = "Drained"
        /\ order' = order /\ runningTask' = 0
        /\ microQueue' = <<>> /\ macroQueue' = <<>>]_vars

\* a Drained scheduler that has executed tasks and holds none
C17_Witness ==
  /\ schedState = "Drained"
  /\ Len(order) = 2 /\ Len(submitted) = 2
  /\ Pending("micro") = {} /\ Pending("macro") = {}
  /\ ENABLED runToCompletion

\* C18: a task cancelled while it waits is never executed and the other
\* tasks keep their order in the queues; a cancel request for a task that
\* was popped changes nothing of the execution
C18_Cancel ==
  /\ [](cancelled \cap InQueue(order) = {})
  /\ [][\A id \in DOMAIN submitted :
          (id \in cancelled' /\ id \notin cancelled) =>
             /\ microQueue' = SelectSeq(microQueue, LAMBDA x : x # id)
             /\ macroQueue' = SelectSeq(macroQueue, LAMBDA x : x # id)
             /\ order' = order /\ runningTask' = runningTask]_vars
  /\ [][lateCancels' # lateCancels =>
          UNCHANGED <<schedState, microQueue, macroQueue, runningTask, order,
                      threw, hookReports, cancelled>>]_vars

\* of three tasks the second was cancelled while it waited and the first
\* got a cancel request while it ran: the first and the third were executed
C18_Witness ==
  /\ schedState = "Drained"
  /\ order = <<1, 3>>
  /\ cancelled = {2} /\ lateCancels = {1}

\* the least element of a set of numbers
Min(S) == CHOOSE x \in S : \A y \in S : x <= y

\* the task the rules select, as a function of what was submitted, cancelled
\* and executed so far
NextTask ==
  IF Pending("micro") # {} THEN Min(Pending("micro"))
  ELSE CHOOSE m \in Pending("macro") : \A q \in Pending("macro") \ {m} : MacroBefore(m, q)

\* C19: the execution order is a function of the submissions: every task
\* that is executed is the one the submissions made so far determine, so
\* two runs with the same submissions execute in the same order
C19_OrderDetermined ==
  [][order' # order => (order' = Append(order, NextTask) /\ runningTask' = NextTask)]_vars

\* a macrotask and a microtask were submitted, and the body of the
\* macrotask submitted a second microtask: the order is the microtask, the
\* macrotask, the second microtask
C19_Witness ==
  /\ order = <<2, 1, 3>>
  /\ submitted[1].class = "macro" /\ submitted[2].class = "micro"
  /\ submitted[3].class = "micro"
  /\ schedState = "Drained"

(***************************************************************************)
(* GameCharacter: a private #health read through a getter and written      *)
(* through a validating setter.                                            *)
(***************************************************************************)
CharacterNames == {"Hero", "Goblin"}

\* the initial values of the state hooks of App, which resetGame sets again
NewGame ==
  HookState(PlainObject("Hero", 100, 15), PlainObject("Monster", 120, 10),
            "hero", "Battle starts! Hero's turn.", FALSE)

\* App after its first render: the effect has still to run
AppMounted ==
  /\ appState = NewGame
  /\ rendered = NewGame
  /\ effectPending = TRUE

\* the numbers a caller passes as initialHealth or assigns to health
HealthInputs == -1..MaxHealth

\* the numbers a caller passes as attackPower or as amount of damage
PowerInputs == -1..MaxPower

Max(a, b) == IF a >= b THEN a ELSE b

InitGame ==
  /\ pc = "idle"
  /\ fn = "none"
  /\ heap = [r \in {InputRef, NewRef} |-> <<>>]
  /\ index = 0
  /\ accumulator = Undefined
  /\ argc = 0
  /\ initialValue = Undefined
  /\ s0 = <<>>
  /\ calls = <<>>
  /\ result = NoValue
  /\ error = NoError
  /\ LoopIdle
  /\ SchedulerNew
  /\ NoExample
  /\ NoCharacters
  /\ NoUsers
  /\ AppMounted
  /\ NoClosure
  /\ NoLogin

\* new GameCharacter(name, initialHealth, attackPower): #health is
\* initialised with initialHealth as given
GameCharacter(name, initialHealth, attackPower) ==
  [c \in DOMAIN characters \cup {name} |->
     IF c = name THEN [health |-> initialHealth, attackPower |-> attackPower]
     ELSE characters[c]]

\* get health()
Health(c) == characters[c].health

\* set health(newHealth): #health = Math.max(0, newHealth)
SetHealth(chars, c, newHealth) ==
  [chars EXCEPT ![c].health = Max(0, newHealth)]

\* takeDamage(amount): this.health -= amount when amount > 0
TakeDamage(chars, c, amount) ==
  IF amount > 0 THEN SetHealth(chars, c, chars[c].health - amount) ELSE chars

constructor ==
  /\ \E name \in CharacterNames \ DOMAIN characters :
       \E initialHealth \in HealthInputs, attackPower \in PowerInputs :
          characters' = GameCharacter(name, initialHealth, attackPower)
  /\ UNCHANGED notGame

healthAssigned ==
  /\ \E c \in DOMAIN characters, newHealth \in HealthInputs :
       characters' = SetHealth(characters, c, newHealth)
  /\ UNCHANGED notGame

takeDamage ==
  /\ \E c \in DOMAIN characters, amount \in PowerInputs :
       characters' = TakeDamage(characters, c, amount)
  /\ UNCHANGED notGame

\* attack(targetCharacter): targetCharacter.takeDamage(this.attackPower)
attack ==
  /\ \E c \in DOMAIN characters, target \in DOMAIN characters :
       characters' = TakeDamage(characters, target, characters[c].attackPower)
  /\ UNCHANGED notGame

\* isAlive(): #health > 0, of an instance made from a plain object
isAlive(data) == data.health > 0

\* the two instances handleAttack makes from the plain objects, after
\* currentAttacker.attack(currentTarget)
AfterAttack(attackerData, targetData) ==
  LET made == [c \in {"attacker", "target"} |->
                 IF c = "attacker"
                   THEN [health |-> attackerData.health,
                         attackPower |-> attackerData.attackPower]
                   ELSE [health |-> targetData.health,
                         attackPower |-> targetData.attackPower]]
  IN  TakeDamage(made, "target", made["attacker"].attackPower)

\* the dependencies of the effect
Deps(st) ==
  <<st.heroData.health, st.monsterData.health, st.gameOver, st.turn,
    st.heroData.name, st.monsterData.name>>

\* prevMsg.includes("attacked")
IncludesAttacked(msg) ==
  msg \in {"Hero attacked Monster!", "Monster attacked Hero!"}

\* the updates of an event handler are rendered and committed when the
\* handler returns; the effect is due when a dependency changed
Commit(st) ==
  /\ appState' = st
  /\ rendered' = st
  /\ effectPending' = (Deps(st) # Deps(rendered))

\* handleAttack as the closure of the last committed render, with the
\* plain objects that render passed to it
handleAttack(attacker) ==
  LET attackerData == IF attacker = "hero" THEN rendered.heroData ELSE rendered.monsterData
      targetData == IF attacker = "hero" THEN rendered.monsterData ELSE rendered.heroData
      after == AfterAttack(attackerData, targetData)
      newAttacker == PlainObject(attackerData.name, after["attacker"].health,
                                 attackerData.attackPower)
      newTarget == PlainObject(targetData.name, after["target"].health,
                               targetData.attackPower)
  IN  IF rendered.gameOver
        THEN UNCHANGED appVars
        ELSE Commit([appState EXCEPT
                       !.heroData = IF attacker = "hero" THEN newAttacker ELSE newTarget,
                       !.monsterData = IF attacker = "hero" THEN newTarget ELSE newAttacker,
                       !.message = attackerData.name \o " attacked " \o targetData.name \o "!",
                       !.turn = IF rendered.turn = "hero" THEN "monster" ELSE "hero"])

\* a click on Hero Attack; the button of the last committed render is
\* disabled when turn !== "hero" || gameOver.  The effects of a commit run
\* before the next click is handled.
clickHeroAttack ==
  /\ ~effectPending
  /\ ~(rendered.turn # "hero" \/ rendered.gameOver)
  /\ handleAttack("hero")
  /\ UNCHANGED notApp

\* a click on Monster Attack, disabled when turn !== "monster" || gameOver
clickMonsterAttack ==
  /\ ~effectPending
  /\ ~(rendered.turn # "monster" \/ rendered.gameOver)
  /\ handleAttack("monster")
  /\ UNCHANGED notApp

\* a click on Play Again, rendered only when gameOver: resetGame
resetGame ==
  /\ ~effectPending
  /\ rendered.gameOver
  /\ Commit(NewGame)
  /\ UNCHANGED notApp

\* the effect, with the values of the render it belongs to; its updates
\* are rendered later
useEffect ==
  /\ effectPending
  /\ effectPending' = FALSE
  /\ IF ~isAlive(rendered.heroData)
       THEN appState' = [appState EXCEPT
                           !.message = rendered.heroData.name \o " has been defeated! "
                                         \o rendered.monsterData.name \o " wins!",
                           !.gameOver = TRUE]
     ELSE IF ~isAlive(rendered.monsterData)
       THEN appState' = [appState EXCEPT
                           !.message = rendered.monsterData.name \o " has been defeated! "
                                         \o rendered.heroData.name \o " wins!",
                           !.gameOver = TRUE]
     ELSE IF ~rendered.gameOver
       THEN appState' = [appState EXCEPT
                           !.message =
                              IF IncludesAttacked(@) THEN @
                              ELSE (IF rendered.turn = "hero" THEN rendered.heroData.name
                                    ELSE rendered.monsterData.name) \o "'s turn."]
     ELSE UNCHANGED appState
  /\ UNCHANGED rendered
  /\ UNCHANGED notApp

\* the render of the updates an effect made
render ==
  /\ appState # rendered
  /\ Commit(appState)
  /\ UNCHANGED notApp

GameNext ==
  \/ constructor
  \/ healthAssigned
  \/ takeDamage
  \/ attack
  \/ clickHeroAttack
  \/ clickMonsterAttack
  \/ resetGame
  \/ useEffect
  \/ render

GameSpec == InitGame /\ [][GameNext]_vars

\* C21: the health read through the getter is never below zero, whatever
\* the character was constructed with and whatever takeDamage, attack and
\* assignments to health followed
C21_HealthNeverNegative == \A c \in DOMAIN characters : Health(c) >= 0

\* a character of the battle has no health left
Defeated == appState.heroData.health = 0 \/ appState.monsterData.health = 0

\* C28: once the health of the hero or of the monster has reached 0 no
\* attack changes either health until resetGame, and a character whose
\* health is 0 never attacks
C28_NoAttackAfterDefeat ==
  [][ /\ (Defeated /\ ~resetGame) =>
           /\ appState'.heroData.health = appState.heroData.health
           /\ appState'.monsterData.health = appState.monsterData.health
      /\ clickHeroAttack => rendered.heroData.health > 0
      /\ clickMonsterAttack => rendered.monsterData.health > 0 ]_vars

(***************************************************************************)
(* Closures over a loop variable: loopWithClosuresVar, loopWithClosuresLet *)
(* and clousureExample register timer callbacks in a loop.  The clock      *)
(* counts the unit of the delays of the function that runs.                *)
(***************************************************************************)
ClosureFns == {"loopWithClosuresVar", "loopWithClosuresLet", "clousureExample"}

\* for (var i = 1; ...), for (let i = 1; ...), for (var i = 0; ...)
FirstI(f) == IF f = "clousureExample" THEN 0 ELSE 1

\* i <= 3, i <= 3, i <= 5
LastI(f) == IF f = "clousureExample" THEN 5 ELSE 3

\* i * 100 and x * 1000 milliseconds
DelayMs(f, v) == IF f = "clousureExample" THEN v * 1000 ELSE v * 100

\* the unit of the clock, in milliseconds
ClockUnit(f) == IF f = "clousureExample" THEN 1000 ELSE 100

\* one of the functions is called from the script
InitClosure ==
  /\ pc = "idle"
  /\ fn = "none"
  /\ heap = [r \in {InputRef, NewRef} |-> <<>>]
  /\ index = 0
  /\ accumulator = Undefined
  /\ argc = 0
  /\ initialValue = Undefined
  /\ s0 = <<>>
  /\ calls = <<>>
  /\ result = NoValue
  /\ error = NoError
  /\ LoopIdle
  /\ SchedulerNew
  /\ NoExample
  /\ NoCharacters
  /\ NoUsers
  /\ NoApp
  /\ NoLogin
  /\ closureFn \in ClosureFns
  /\ closurePc = "loop"
  /\ env = <<FirstI(closureFn)>>
  /\ scope = 1
  /\ closures = <<>>
  /\ ran = {}
  /\ output = <<>>

\* a loop in which every iteration shares the binding of the first
PerIterationBindingNever(f) == FALSE

\* a let declaration in the head of a for loop gives every iteration a
\* binding of its own; a var declaration gives the function one binding
PerIterationBinding(f) == f = "loopWithClosuresLet"

\* the binding the callback registered in this iteration closes over, in the
\* environment envNow: the loop variable itself, or the parameter x of the
\* call avoidSameRefForIVariable(i), a new binding that holds the value of i
ClosedOver(f, envNow) ==
  IF f = "clousureExample" THEN Len(envNow) + 1 ELSE scope

\* the environment after the body of an iteration
AfterBody(f, envNow) ==
  IF f = "clousureExample" THEN Append(envNow, envNow[scope]) ELSE envNow

\* one iteration: the test, setTimeout(callback, delay) in the body, i++
loopIteration ==
  /\ running = "script"
  /\ closurePc = "loop"
  /\ env[scope] <= LastI(closureFn)
  /\ LET body == AfterBody(closureFn, env)
         delay == DelayMs(closureFn, env[scope]) \div ClockUnit(closureFn)
     IN  /\ tasks' = Append(tasks, NewTask("macro", delay))
         /\ timers' = timers \cup {Len(tasks) + 1}
         /\ closures' = Append(closures, ClosedOver(closureFn, env))
         /\ IF PerIterationBinding(closureFn)
              THEN /\ env' = Append(body, body[scope] + 1)
                   /\ scope' = Len(body) + 1
              ELSE /\ env' = [body EXCEPT ![scope] = @ + 1]
                   /\ UNCHANGED scope
  /\ UNCHANGED <<closureFn, closurePc, ran, output>>
  /\ UNCHANGED <<running, current, macrotaskQueue, microtaskQueue, now, executed>>
  /\ UNCHANGED notLoopClosure

\* the loop ends; clousureExample then logs "From line no: 5"
loopExit ==
  /\ running = "script"
  /\ closurePc = "loop"
  /\ ~(env[scope] <= LastI(closureFn))
  /\ closurePc' = "end"
  /\ output' = IF closureFn = "clousureExample"
                 THEN Append(output, <<"From line no: 5", 0>>)
                 ELSE output
  /\ UNCHANGED <<closureFn, env, scope, closures, ran>>
  /\ UNCHANGED loopVars
  /\ UNCHANGED notLoopClosure

\* the function returns and the script ends
closureReturns ==
  /\ running = "script"
  /\ closurePc = "end"
  /\ CallStackEmpties

\* time passes while a timer waits
timePasses ==
  /\ \E id \in timers : tasks[id].due > now
  /\ now' = now + 1
  /\ UNCHANGED <<running, current, tasks, timers, macrotaskQueue, microtaskQueue, executed>>
  /\ UNCHANGED notLoop

\* the body of a timer callback: console.log(label, i) or console.log(label, x)
\* with the value its binding has now
timeoutCallback ==
  /\ running = "macro"
  /\ current \notin ran
  /\ output' = Append(output, <<"value", env[closures[current]]>>)
  /\ ran' = ran \cup {current}
  /\ UNCHANGED <<closureFn, closurePc, env, scope, closures>>
  /\ UNCHANGED loopVars
  /\ UNCHANGED notLoopClosure

timeoutCallbackReturns ==
  /\ running = "macro"
  /\ current \in ran
  /\ CallStackEmpties

ClosureNext ==
  \/ loopIteration
  \/ loopExit
  \/ closureReturns
  \/ timePasses
  \/ TimerFires
  \/ RunMacrotask
  \/ timeoutCallback
  \/ timeoutCallbackReturns

ClosureSpec == InitClosure /\ [][ClosureNext]_vars

\* the values a run of the function logs, in order
Logged(f) ==
  IF f = "loopWithClosuresVar" THEN <<4, 4, 4>>
  ELSE IF f = "loopWithClosuresLet" THEN <<1, 2, 3>>
  ELSE <<0, 1, 2, 3, 4, 5>>

Lines(values) == [k \in DOMAIN values |-> <<"value", values[k]>>]

\* C30: the callbacks of the var loop all log the final value 4, those of
\* the let loop log 1, 2, 3, and clousureExample logs "From line no: 5"
\* first and then 0 to 5 in ascending order of delay
C30_ClosuresLog ==
  /\ closureFn \in {"loopWithClosuresVar", "loopWithClosuresLet"} =>
       IsPrefix(output, Lines(Logged(closureFn)))
  /\ closureFn = "clousureExample" =>
       IsPrefix(output, <<<<"From line no: 5", 0>>>> \o Lines(Logged(closureFn)))

AllLogged(f) ==
  /\ closureFn = f
  /\ running = "none"
  /\ timers = {}
  /\ macrotaskQueue = <<>>
  /\ Len(output) = Len(Logged(f)) + (IF f = "clousureExample" THEN 1 ELSE 0)

C30_Witness ==
  /\ AllLogged("loopWithClosuresLet")
  /\ output = <<<<"value", 1>>, <<"value", 2>>, <<"value", 3>>>>

C30_WitnessVar ==
  /\ AllLogged("loopWithClosuresVar")
  /\ output[3] = <<"value", 4>>

C30_WitnessParameter ==
  /\ AllLogged("clousureExample")
  /\ output[1] = <<"From line no: 5", 0>>
  /\ output[7] = <<"value", 5>>

(***************************************************************************)
(* performLoginAndFetchProfile: the script calls it twice, the second time *)
(* with .catch(...).  The clock counts half seconds.                       *)
(***************************************************************************)
LoginNames == {"unais", "invalid"}
LoginPasswords == {"12345", "password"}

\* username === "unais" && password === "12345"
ValidCredentials(c) == c[1] = "unais" /\ c[2] = "12345"

\* the delays of loginUser and getUserProfile in half seconds
LoginDelay == 1500 \div 500
ProfileDelay == 1000 \div 500

\* the call that has .catch(() => ...) on the promise it returns
HasCatch(k) == k = 2

\* the first call is the one of the script; the second is made with any
\* username and password
InitLogin ==
  /\ pc = "idle"
  /\ fn = "none"
  /\ heap = [r \in {InputRef, NewRef} |-> <<>>]
  /\ index = 0
  /\ accumulator = Undefined
  /\ argc = 0
  /\ initialValue = Undefined
  /\ s0 = <<>>
  /\ calls = <<>>
  /\ result = NoValue
  /\ error = NoError
  /\ LoopIdle
  /\ SchedulerNew
  /\ NoExample
  /\ NoCharacters
  /\ NoUsers
  /\ NoApp
  /\ NoClosure
  /\ \E u \in LoginNames, w \in LoginPasswords :
       credentials = <<<<"unais", "12345">>, <<u, w>>>>
  /\ asyncPc = <<"start", "start">>
  /\ promise = <<"pending", "pending">>
  /\ reactions = <<>>
  /\ finished = {}
  /\ lines = <<>>
  /\ profileCalls = {}

Reaction(unit, k, rejected) == [unit |-> unit, call |-> k, rejected |-> rejected]

\* setTimeout(callback, delay) by the code that runs now
StartTimer(unit, k, delay) ==
  /\ tasks' = Append(tasks, NewTask("macro", delay))
  /\ timers' = timers \cup {Len(tasks) + 1}
  /\ reactions' = Append(reactions, Reaction(unit, k, FALSE))
  /\ UNCHANGED <<running, current, macrotaskQueue, microtaskQueue, now, executed>>

\* a promise with a reaction is settled: the reaction goes to the
\* microtask queue
QueueReaction(unit, k, rejected) ==
  /\ tasks' = Append(tasks, NewTask("micro", 0))
  /\ microtaskQueue' = Append(microtaskQueue, Len(tasks) + 1)
  /\ reactions' = Append(reactions, Reaction(unit, k, rejected))
  /\ UNCHANGED <<running, current, timers, macrotaskQueue, now, executed>>

Log(ls, k, text) == Append(ls, <<k, text>>)

\* a finally block that runs before the catch block
FinallyThenCatch(ls, k) ==
  Log(Log(ls, k, "4. Login and profile operation completed."), k, "4. Operation failed:")

\* an error thrown in the try block: the catch block logs it and throws it
\* again, then the finally block runs
CatchThenFinally(ls, k) ==
  Log(Log(ls, k, "4. Operation failed:"), k, "4. Login and profile operation completed.")

\* the function ends by the throw of the catch block: after the finally
\* block the promise it returned is rejected
Rejects(k) ==
  /\ lines' = CatchThenFinally(lines, k)
  /\ promise' = [promise EXCEPT ![k] = "rejected"]
  /\ asyncPc' = [asyncPc EXCEPT ![k] = "done"]
  /\ IF HasCatch(k)
       THEN QueueReaction("catchHandler", k, TRUE)
       ELSE UNCHANGED <<loopVars, reactions>>

\* the next call of the script, up to its first await: the log, then
\* loginUser starts its timer
performLoginAndFetchProfile ==
  /\ running = "script"
  /\ \E k \in DOMAIN asyncPc :
       /\ asyncPc[k] = "start"
       /\ \A j \in 1..(k - 1) : asyncPc[j] # "start"
       /\ lines' = Log(lines, k, "4. Attempting login")
       /\ StartTimer("loginUser", k, LoginDelay)
       /\ asyncPc' = [asyncPc EXCEPT ![k] = "awaitLogin"]
  /\ UNCHANGED <<credentials, promise, finished, profileCalls>>
  /\ UNCHANGED notLoopLogin

scriptEnds ==
  /\ running = "script"
  /\ \A k \in DOMAIN asyncPc : asyncPc[k] # "start"
  /\ CallStackEmpties

\* the callback of the timer of loginUser: resolve or reject
loginUserTimeout ==
  /\ running = "macro"
  /\ current \notin finished
  /\ reactions[current].unit = "loginUser"
  /\ LET k == reactions[current].call
     IN  QueueReaction("afterLogin", k, ~ValidCredentials(credentials[k]))
  /\ finished' = finished \cup {current}
  /\ UNCHANGED <<credentials, asyncPc, promise, lines, profileCalls>>
  /\ UNCHANGED notLoopLogin

\* the function resumes after await loginUser(...)
afterLogin ==
  /\ running = "micro"
  /\ current \notin finished
  /\ reactions[current].unit = "afterLogin"
  /\ LET k == reactions[current].call
     IN  IF reactions[current].rejected
           THEN /\ Rejects(k)
                /\ UNCHANGED profileCalls
           ELSE /\ lines' = Log(Log(lines, k, "4. Login successful:"), k, "4. Fetching profile")
                /\ profileCalls' = profileCalls \cup {k}
                /\ StartTimer("getUserProfile", k, ProfileDelay)
                /\ asyncPc' = [asyncPc EXCEPT ![k] = "awaitProfile"]
                /\ UNCHANGED promise
  /\ finished' = finished \cup {current}
  /\ UNCHANGED credentials
  /\ UNCHANGED notLoopLogin

\* the callback of the timer of getUserProfile(loginResult.userId): the
\* userId of a successful login is 101, which it resolves
getUserProfileTimeout ==
  /\ running = "macro"
  /\ current \notin finished
  /\ reactions[current].unit = "getUserProfile"
  /\ LET k == reactions[current].call
     IN  QueueReaction("afterProfile", k, ~ValidCredentials(credentials[k]))
  /\ finished' = finished \cup {current}
  /\ UNCHANGED <<credentials, asyncPc, promise, lines, profileCalls>>
  /\ UNCHANGED notLoopLogin

\* the function resumes after await getUserProfile(...): the profile is
\* logged and returned, the finally block runs, the promise is fulfilled
afterProfile ==
  /\ running = "micro"
  /\ current \notin finished
  /\ reactions[current].unit = "afterProfile"
  /\ LET k == reactions[current].call
     IN  IF reactions[current].rejected
           THEN Rejects(k)
           ELSE /\ lines' = Log(Log(lines, k, "4. User profile:"), k,
                                "4. Login and profile operation completed.")
                /\ promise' = [promise EXCEPT ![k] = "fulfilled"]
                /\ asyncPc' = [asyncPc EXCEPT ![k] = "done"]
                /\ UNCHANGED <<loopVars, reactions>>
  /\ finished' = finished \cup {current}
  /\ UNCHANGED <<credentials, profileCalls>>
  /\ UNCHANGED notLoopLogin

\* .catch(() => { console.log("4. Handled failed login externally."); })
catchHandler ==
  /\ running = "micro"
  /\ current \notin finished
  /\ reactions[current].unit = "catchHandler"
  /\ lines' = Log(lines, reactions[current].call, "4. Handled failed login externally.")
  /\ finished' = finished \cup {current}
  /\ UNCHANGED <<credentials, asyncPc, promise, reactions, profileCalls>>
  /\ UNCHANGED loopVars
  /\ UNCHANGED notLoopLogin

\* a callback returns
reactionReturns ==
  /\ running \in {"macro", "micro"}
  /\ current \in finished
  /\ CallStackEmpties

LoginNext ==
  \/ performLoginAndFetchProfile
  \/ scriptEnds
  \/ timePasses
  \/ TimerFires
  \/ RunMacrotask
  \/ RunMicrotask
  \/ loginUserTimeout
  \/ afterLogin
  \/ getUserProfileTimeout
  \/ afterProfile
  \/ catchHandler
  \/ reactionReturns

LoginSpec == InitLogin /\ [][LoginNext]_vars

\* the lines one call has logged, in order
RECURSIVE LinesOf(_, _)
LinesOf(ls, k) ==
  IF ls = <<>> THEN <<>>
  ELSE IF Head(ls)[1] = k THEN <<Head(ls)[2]>> \o LinesOf(Tail(ls), k)
  ELSE LinesOf(Tail(ls), k)

LinesWhenInvalid ==
  <<"4. Attempting login", "4. Operation failed:",
    "4. Login and profile operation completed.", "4. Handled failed login externally.">>

LinesWhenValid ==
  <<"4. Attempting login", "4. Login successful:", "4. Fetching profile",
    "4. User profile:", "4. Login and profile operation completed.">>

\* C29: a call with invalid credentials never calls getUserProfile, logs
\* the failure in the catch block and then the line of the finally block,
\* and its promise is rejected and the .catch handler of the caller runs
\* only after that; a call with valid credentials never runs the catch
\* block and runs the finally block once, after the profile is logged
C29_LoginFailureOrder ==
  \A k \in DOMAIN credentials :
     IF ValidCredentials(credentials[k])
       THEN /\ IsPrefix(LinesOf(lines, k), LinesWhenValid)
            /\ promise[k] # "rejected"
            /\ promise[k] = "fulfilled" <=> LinesOf(lines, k) = LinesWhenValid
       ELSE /\ k \notin profileCalls
            /\ IsPrefix(LinesOf(lines, k), LinesWhenInvalid)
            /\ promise[k] # "fulfilled"
            /\ promise[k] = "rejected" <=> Len(LinesOf(lines, k)) >= 3

C29_Witness ==
  /\ ~ValidCredentials(credentials[2])
  /\ LinesOf(lines, 2) = LinesWhenInvalid
  /\ LinesOf(lines, 1) = LinesWhenValid
  /\ promise = <<"fulfilled", "rejected">>
  /\ running = "none"

(***************************************************************************)
(* AuthService: static registerUser and loginUser over the private static  *)
(* list #users.                                                            *)
(***************************************************************************)
\* the usernames and passwords of the calls; "" is a missing argument
Usernames == {"alice_user", "bob_user", "charlie_user", ""}
Passwords == {"pass123", "securepwd", ""}

InitAuth ==
  /\ pc = "idle"
  /\ fn = "none"
  /\ heap = [r \in {InputRef, NewRef} |-> <<>>]
  /\ index = 0
  /\ accumulator = Undefined
  /\ argc = 0
  /\ initialValue = Undefined
  /\ s0 = <<>>
  /\ calls = <<>>
  /\ result = NoValue
  /\ error = NoError
  /\ LoopIdle
  /\ SchedulerNew
  /\ NoExample
  /\ RestIdle

\* the largest of the ids of a non-empty list of users
RECURSIVE MaxId(_)
MaxId(us) ==
  IF Len(us) = 1 THEN us[1].id ELSE Max(us[1].id, MaxId(Tail(us)))

\* #generateUserId(): 1 for the first user, else the largest id plus one
generateUserId == IF Len(users) > 0 THEN MaxId(users) + 1 ELSE 1

\* a check that looks at the user registered last only
UsernameExistsLast(username) ==
  Len(users) > 0 /\ users[Len(users)].username = username

\* #users.some((user) => user.username === username)
UsernameExists(username) ==
  \E k \in DOMAIN users : users[k].username = username

\* #users.find((u) => u.username === username): the index of the first
\* user of that name, 0 when there is none
FindUser(username) ==
  IF UsernameExists(username)
    THEN CHOOSE k \in DOMAIN users :
           /\ users[k].username = username
           /\ \A j \in 1..(k - 1) : users[j].username # username
    ELSE 0

registerUser ==
  \E username \in Usernames, password \in Passwords :
     /\ IF username = "" \/ password = ""
          THEN /\ authResult' = AuthReturn("registerUser", FALSE, 0,
                                           "Username and password are required.")
               /\ UNCHANGED users
        ELSE IF UsernameExists(username)
          THEN /\ authResult' = AuthReturn("registerUser", FALSE, 0,
                                           "Username already exists.")
               /\ UNCHANGED users
        ELSE /\ users' = Append(users, [id |-> generateUserId, username |-> username,
                                        password |-> password])
             /\ authResult' = AuthReturn("registerUser", TRUE, 0, "Registration successful.")
     /\ UNCHANGED notAuth

loginUser ==
  \E username \in Usernames, password \in Passwords :
     /\ IF FindUser(username) # 0 /\ users[FindUser(username)].password = password
          THEN authResult' = AuthReturn("loginUser", TRUE, users[FindUser(username)].id,
                                        "Login successful.")
          ELSE authResult' = AuthReturn("loginUser", FALSE, 0,
                                        "Invalid username or password.")
     /\ UNCHANGED users
     /\ UNCHANGED notAuth

AuthNext ==
  \/ registerUser
  \/ loginUser

AuthSpec == InitAuth /\ [][AuthNext]_vars

\* C22: no two registered users have the same username or the same id, and
\* a registerUser call that returns success: false leaves the list of
\* registered users as it was
C22_UsersUnique ==
  /\ [](\A j, k \in DOMAIN users :
          j # k => (users[j].username # users[k].username /\ users[j].id # users[k].id))
  /\ [][(authResult'.op = "registerUser" /\ ~authResult'.success) => users' = users]_vars

\* with alice and bob registered, a second registration of one of them was
\* refused
C22_Witness ==
  /\ Len(users) = 2
  /\ users[1].id # users[2].id
  /\ authResult = AuthReturn("registerUser", FALSE, 0, "Username already exists.")

(***************************************************************************)
(* More of the traversal functions.                                        *)
(***************************************************************************)
\* C23: customFind short-circuits: the predicate is invoked once for each
\* index from 0 up, in ascending order, every invocation before the last
\* returned a falsy value, and after the first truthy result the search
\* has returned: no index above it is ever tested
C23_FindShortCircuits ==
  fn = "customFind" =>
     /\ \A k \in DOMAIN calls : calls[k].index = k - 1
     /\ \A k \in 1..(Len(calls) - 1) :
          calls[k].kind = "return" /\ ~(calls[k].ret[1] = "num" /\ calls[k].ret[2] # 0)
     /\ TruthyCalls # <<>> => (pc = "returned" /\ TruthyCalls = <<Len(calls)>>)

\* the second of three elements matched, also after the predicate had made
\* the array longer: the third element and the new one were not tested
C23_Witness ==
  /\ pc = "returned" /\ fn = "customFind"
  /\ Len(s0) = 3 /\ Len(heap[InputRef]) = 4
  /\ Len(calls) = 2
  /\ calls[1].ret = Num(0) /\ calls[2].ret = Num(1)

\* the array as it was when invocation k of the callback was made
ArrayAt(k) == Replay(s0, SubSeq(calls, 1, k - 1))

\* C24: customReduce skips the indices of a sparse array that hold no
\* element: the reducer is never called with the index of a hole, and when
\* the initial value is omitted the accumulator does not start from a hole
C24_HolesSkipped ==
  (fn = "customReduce" /\ pc \in {"loop", "returned"}) =>
     /\ \A k \in DOMAIN calls : HasOwnProperty(ArrayAt(k), calls[k].index)
     /\ argc = 1 => HasOwnProperty(s0, 0)

C26_NotFoundDistinct ==
  (pc = "returned" /\ fn = "customFind") =>
     (result = Undefined <=> TruthyCalls = <<>>)

\* no index of the array holds undefined or is a hole
AllDefined(arr) == \A k \in DOMAIN arr : arr[k] \notin {Undefined, Hole}

\* C26: on an array none of whose elements is undefined, customFind returns
\* undefined exactly when no element satisfied the predicate
C26_NotFoundDistinctFromDefined ==
  (pc = "returned" /\ fn = "customFind" /\ AllDefined(s0)) =>
     (result = Undefined <=> TruthyCalls = <<>>)

\* three defined elements, none satisfied the predicate
C26_Witness ==
  /\ pc = "returned" /\ fn = "customFind"
  /\ Len(s0) = 3 /\ AllDefined(s0)
  /\ Len(calls) = 3 /\ TruthyCalls = <<>>
  /\ result = Undefined

\* the invocation made for index i of the array, 0 if there is none
CallFor(i) ==
  IF \E k \in DOMAIN calls : calls[k].index = i
    THEN CHOOSE k \in DOMAIN calls : calls[k].index = i
    ELSE 0

\* C27: customMap does what Array.prototype.map does, also when the
\* callback changes the length of the array: map fixes the number of
\* indices at the start, invokes the callback only for the indices below it
\* that hold an element when their turn comes, and returns an array of that
\* length with the results at those indices and holes at the others
C27_MapAsBuiltin ==
  (pc = "returned" /\ fn = "customMap") =>
     /\ Len(Returned) = Len(s0)
     /\ \A k \in DOMAIN calls :
          calls[k].index < Len(s0) /\ HasOwnProperty(ArrayAt(k), calls[k].index)
     /\ \A i \in 0..(Len(s0) - 1) :
          i < Len(Returned) =>
             Returned[i + 1] = IF CallFor(i) # 0 THEN calls[CallFor(i)].ret ELSE Hole

====
